---- MODULE Spec2Model ----
(***************************************************************************)
(* Model of bucketHydrology.py: class reservoir (recharge, discharge) and  *)
(* class buckets (set_rainfall_time_series, set_evapotranspiration,        *)
(* export_Hlist, initialize, update, evapotranspirationChang2019, run).    *)
(*                                                                         *)
(* Water depths are Python floats.  They are modelled as exact rationals:  *)
(* every depth is an integer number of grains, Scale grains making one     *)
(* unit of depth.  One discharge() multiplies a depth by j/DecayDen and by *)
(* k/FracDen, so after at most MaxDischarge calls of discharge() every     *)
(* product is still a whole number of grains (invariant ExactArithmetic)   *)
(* and \div is an exact division.  Rounding of floats is not modelled.     *)
(***************************************************************************)
EXTENDS Integers, Sequences, FiniteSets, TLC

\* ---------------------------------------------------------------- bounds
MaxRes == 2          \* longest reservoir_list
MaxDischarge == 6    \* calls of reservoir.discharge in one behaviour
MaxSteps == 3        \* calls of buckets.update in one behaviour
MaxCalls == 5        \* direct calls of reservoir methods in one behaviour

\* ----------------------------------------------------------- value grids
Largest(S) == CHOOSE m \in S : \A x \in S : x <= m
DecaySet == {0, 1, 2}                    \* exp(-dt/t_efold) as a float:
DecayDen == Largest(DecaySet)            \*   0, 1/2 or 1
DecayOpen == DecaySet \ {0, DecayDen}    \* exp(-dt/t_efold) as a real
FracSet == {0, 1, 2}                     \* f_to_discharge: 0, 1/2 or 1
FracDen == Largest(FracSet)

Scale == (DecayDen * FracDen) ^ MaxDischarge

\* ------------------------------------------------------ program constants
Inf == -1            \* stands for np.inf, the default Hmax
dt == 1              \* default time step of buckets.__init__

None == <<>>         \* Python None for an optional attribute or argument
Some(x) == <<x>>
Val(o) == o[1]

\* ---------------------------------------------------------------- inputs
HmaxSet == {Inf, 2 * Scale}
AmountSet == {-5 * Scale, -1 * Scale, 3 * Scale, 4 * Scale}
RainSet == {0, 3 * Scale}
ETSet == {0, 5 * Scale}
LevelSet == {0, 2 * Scale}
RainSeriesSet == {<<3 * Scale>>, <<3 * Scale, 0>>, <<3 * Scale, 0, 0>>}
ETSeriesSet == {<<5 * Scale>>, <<0, 5 * Scale>>}

TempSet == {-690, 0, 200, 1799, 1800}    \* in 1/TempDen degree
PhotoSet == {9, 12, 15}

VARIABLES
    N,                  \* len(self.reservoirs)
    Hmax,               \* reservoir.Hmax, by index in reservoirs
    decay,              \* exp(-dt/t_efold) of each reservoir, in 1/DecayDen
    f_to_discharge,     \* reservoir.f_to_discharge, in 1/FracDen
    Hwater,             \* reservoir.Hwater
    excess,             \* reservoir.excess
    H_exfiltrated,      \* reservoir.H_exfiltrated; the attribute exists
    H_infiltrated,      \*   only after the first discharge (DOMAIN)
    rain,               \* buckets.rain (None or Some(series))
    ET,                 \* buckets.ET   (None or Some(series))
    Q,                  \* buckets.Q
    time,               \* buckets.time
    pc,                 \* where the running call stands
    inRun,              \* TRUE while update is called from run
    arg_rain,           \* run's parameter rain
    arg_ET,             \* run's parameter ET
    ti,                 \* run's loop variable
    i,                  \* update's loop variable
    rain_at_timestep,   \* update's parameters
    ET_at_timestep,
    recharge_at_timestep,
    Qi,                 \* update's accumulator
    ret,                \* value returned by the last update
    error,              \* how run ended abnormally, or "none"
    ndischarge,         \* number of discharge() calls so far
    nsteps,             \* number of update() calls so far
    ncalls,             \* number of direct reservoir calls so far
    last,               \* the last call of a reservoir method, with the
                        \*   reservoir's level and excess on entry
    prev,               \* the reservoir call before last
    lastc,              \* the last call of a buckets method
    calls,              \* reservoir calls made by the current/last update
    H0,                 \* levels at construction or at the last initialize
    returned,           \* values update has returned to the current/last run
    budget,             \* water since construction or the last initialize:
                        \*   rain supplied, discharge returned, infiltration
                        \*   of the bottom reservoir
    twin                \* None, or the reservoirs of a second buckets object
                        \*   built with the same parameters and updated with
                        \*   the same forcing, and what its update returned

resvars == <<Hwater, excess, H_exfiltrated, H_infiltrated>>
params == <<N, Hmax, decay, f_to_discharge>>
forcing == <<rain, ET>>
runvars == <<Q, time, inRun, arg_rain, arg_ET, ti, error, returned>>
updvars == <<i, rain_at_timestep, ET_at_timestep, recharge_at_timestep, Qi,
             ret, calls, nsteps>>
vars == <<N, Hmax, decay, f_to_discharge, Hwater, excess, H_exfiltrated,
          H_infiltrated, rain, ET, Q, time, pc, inRun, arg_rain, arg_ET, ti,
          i, rain_at_timestep, ET_at_timestep, recharge_at_timestep, Qi, ret,
          error, ndischarge, nsteps, ncalls, last, prev, lastc, calls, H0,
          returned, budget, twin>>

Res == 0..(N - 1)

\* ------------------------------------------------------------- reservoir
\* x <= self.Hmax, np.inf being above every finite depth
LeqHmax(x, hmax) == hmax = Inf \/ x <= hmax

\* recharge that floors a negative level and then applies the amount
recharge_Hwater_floor_then_add(hw, H, hmax) ==
    IF hw < 0 THEN H
    ELSE IF LeqHmax(hw + H, hmax) THEN hw + H
    ELSE hmax

\* recharge that never overflows
recharge_Hwater_uncapped(hw, H, hmax) == IF hw < 0 THEN 0 ELSE hw + H

\* self.Hwater after recharge(H)
recharge_Hwater(hw, H, hmax) ==
    IF hw < 0 THEN 0
    ELSE IF LeqHmax(hw + H, hmax) THEN hw + H
    ELSE hmax

\* recharge that forgets the water a full reservoir rejects
recharge_excess_dropped(hw, H, hmax) == 0

\* recharge that books the difference to Hmax whenever Hmax is finite
recharge_excess_signed(hw, H, hmax) ==
    IF hw < 0 THEN 0
    ELSE IF hmax = Inf THEN 0
    ELSE hw + H - hmax

\* the local excess of recharge(H), added to self.excess
recharge_excess(hw, H, hmax) ==
    IF hw < 0 THEN 0
    ELSE IF LeqHmax(hw + H, hmax) THEN 0
    ELSE hw + H - hmax

\* discharge that drains the whole level
discharge_dH_undamped(hw, dec) == hw

\* dH = self.Hwater * (1 - np.exp(-dt/self.t_efold))
discharge_dH(hw, dec) == (hw * (DecayDen - dec)) \div DecayDen

\* discharge that splits the excess like the depleted water
discharge_H_exfiltrated_split(ex, dH, f) == ((ex + dH) * f) \div FracDen

\* self.H_exfiltrated = self.excess + dH * self.f_to_discharge
discharge_H_exfiltrated(ex, dH, f) == ex + (dH * f) \div FracDen

\* discharge that leaves the excess in place
discharge_excess_kept(ex) == ex

\* self.excess = 0.
discharge_excess(ex) == 0

\* discharge that infiltrates the exfiltrating share
discharge_H_infiltrated_swapped(dH, f) == (dH * f) \div FracDen

\* self.H_infiltrated = dH * (1 - self.f_to_discharge)
discharge_H_infiltrated(dH, f) == (dH * (FracDen - f)) \div FracDen

\* record of a reservoir call: the method, the reservoir, the amount, and
\* the reservoir's Hwater and excess on entry
Call(op, r, H) ==
    [op |-> op, r |-> r, H |-> H, Hwater |-> Hwater[r], excess |-> excess[r]]

NoCall == [op |-> "none", r |-> 0, H |-> 0, Hwater |-> 0, excess |-> 0]

\* record of a buckets call: the method, its list argument or result, and
\* whether the argument was the list export_Hlist had just returned
CascadeCall(op, Hlist, exported) ==
    [op |-> op, Hlist |-> Hlist, exported |-> exported]

NoWater == [rain |-> 0, Q |-> 0, lost |-> 0]

\* reservoirs[r].recharge(H)
DoRecharge(r, H) ==
    /\ Hwater' = [Hwater EXCEPT ![r] = recharge_Hwater(Hwater[r], H, Hmax[r])]
    /\ excess' = [excess EXCEPT
                    ![r] = excess[r] + recharge_excess(Hwater[r], H, Hmax[r])]
    /\ UNCHANGED <<H_exfiltrated, H_infiltrated, ndischarge>>
    /\ last' = Call("recharge", r, H)
    /\ prev' = last

\* reservoirs[r].discharge(self.dt)
DoDischarge(r) ==
    LET dH == discharge_dH(Hwater[r], decay[r]) IN
    /\ ndischarge < MaxDischarge
    /\ H_exfiltrated' = (r :> discharge_H_exfiltrated(excess[r], dH,
                                                      f_to_discharge[r]))
                        @@ H_exfiltrated
    /\ H_infiltrated' = (r :> discharge_H_infiltrated(dH, f_to_discharge[r]))
                        @@ H_infiltrated
    /\ Hwater' = [Hwater EXCEPT ![r] = Hwater[r] - dH]
    /\ excess' = [excess EXCEPT ![r] = discharge_excess(excess[r])]
    /\ ndischarge' = ndischarge + 1
    /\ last' = Call("discharge", r, 0)
    /\ prev' = last

\* ------------------------------------------------------------------ Init
\* reservoir.__init__ for each layer, then buckets.__init__
InitWith(Ns, Decays) ==
    /\ N \in Ns
    /\ Hmax \in [Res -> HmaxSet]
    /\ decay \in [Res -> Decays]
    /\ f_to_discharge \in [Res -> FracSet]
    /\ Hwater = [r \in Res |-> 0]
    /\ excess = [r \in Res |-> 0]
    /\ H_exfiltrated = <<>>
    /\ H_infiltrated = <<>>
    /\ rain = None
    /\ ET = None
    /\ Q = <<>>
    /\ time = <<>>
    /\ pc = "idle"
    /\ inRun = FALSE
    /\ arg_rain = None
    /\ arg_ET = FALSE
    /\ ti = 0
    /\ i = 0
    /\ rain_at_timestep = 0
    /\ ET_at_timestep = 0
    /\ recharge_at_timestep = 0
    /\ Qi = 0
    /\ ret = 0
    /\ error = "none"
    /\ ndischarge = 0
    /\ nsteps = 0
    /\ ncalls = 0
    /\ last = NoCall
    /\ prev = NoCall
    /\ lastc = CascadeCall("none", None, FALSE)
    /\ calls = <<>>
    /\ H0 = [r \in Res |-> 0]
    /\ returned = <<>>
    /\ budget = NoWater
    /\ twin = None

\* a cascade of 1..MaxRes layers with e-folding times 0 < t_efold < infinity
Init == InitWith(1..MaxRes, DecayOpen)

\* ----------------------------------------- direct calls on one reservoir
recharge(r, H) ==
    /\ pc = "idle"
    /\ ncalls < MaxCalls
    /\ DoRecharge(r, H)
    /\ ncalls' = ncalls + 1
    /\ UNCHANGED <<params, forcing, runvars, updvars, pc, H0, budget, twin,
                   lastc>>

discharge(r) ==
    /\ pc = "idle"
    /\ ncalls < MaxCalls
    /\ DoDischarge(r)
    /\ ncalls' = ncalls + 1
    /\ UNCHANGED <<params, forcing, runvars, updvars, pc, H0, budget, twin,
                   lastc>>

RechargeCall == \E r \in Res, H \in AmountSet : recharge(r, H)
DischargeCall == \E r \in Res : discharge(r)

\* one reservoir; exp() may round to 0.0 or to 1.0
InitReservoir == InitWith({1}, DecaySet)
NextReservoir == RechargeCall \/ DischargeCall
SpecReservoir == InitReservoir /\ [][NextReservoir]_vars

\* --------------------------------------------------------------- cascade
\* export_Hlist: Hlist = [], then one append per reservoir, in order
RECURSIVE export_loop(_, _)
export_loop(r, Hlist) ==
    IF r = N THEN Hlist ELSE export_loop(r + 1, Append(Hlist, Hwater[r]))

export_Hlist == export_loop(0, <<>>)

\* initialize that reads the list from its end
initialize_Hwater_reversed(Hlist) == [r \in Res |-> Hlist[N - r]]

\* initialize: reservoir.Hwater = Hlist[i] with i = 0, 1, ... (Python's
\* Hlist[i] is element i + 1 of the sequence)
initialize_Hwater(Hlist) == [r \in Res |-> Hlist[r + 1]]

\* lists a caller passes to initialize: fresh levels, or the list that the
\* call just before returned from export_Hlist
Hlists ==
    [1..N -> LevelSet]
        \cup (IF lastc.op = "export" THEN {Val(lastc.Hlist)} ELSE {})

ExportCall ==
    /\ pc = "idle"
    /\ lastc' = CascadeCall("export", Some(export_Hlist), FALSE)
    /\ UNCHANGED <<params, resvars, forcing, runvars, updvars, pc, H0, budget,
                   twin, ndischarge, ncalls, last, prev>>

InitializeCall ==
    /\ pc = "idle"
    /\ \E Hlist \in {None} \cup {Some(l) : l \in Hlists} :
          /\ IF Hlist # None
             THEN /\ Hwater' = initialize_Hwater(Val(Hlist))
                  /\ H0' = Hwater'
                  /\ budget' = NoWater
             ELSE UNCHANGED <<Hwater, H0, budget>>
          /\ lastc' = CascadeCall("initialize", Hlist,
                                  lastc.op = "export" /\ Hlist = lastc.Hlist)
    /\ UNCHANGED <<params, excess, H_exfiltrated, H_infiltrated, forcing,
                   runvars, updvars, pc, ndischarge, ncalls, last, prev,
                   twin>>

\* update that hands the exfiltrated water to the next reservoir
recharge_from_above_exfiltrated(r) == H_exfiltrated[r - 1]

\* the argument of reservoirs[i].recharge in update's loop
recharge_from_above(r) == H_infiltrated[r - 1]

\* update that keeps only the last reservoir's exfiltration
update_Qi_overwrite(r, q, exf) == exf

\* Qi = reservoirs[0].H_exfiltrated, then Qi += reservoirs[i].H_exfiltrated
update_Qi(r, q, exf) == IF r = 0 THEN exf ELSE q + exf

\* the second object: reservoirs after reservoir.__init__, Hwater then set
\* by initialize(Hlist)
twin_initialize(Hlist) ==
    [Hwater |-> initialize_Hwater(Hlist), excess |-> [r \in Res |-> 0],
     H_exfiltrated |-> <<>>, H_infiltrated |-> <<>>, ret |-> 0, steps |-> 0]

\* reservoirs[r].recharge(H) of the second object
twin_recharge(t, r, H) ==
    [t EXCEPT !.Hwater[r] = recharge_Hwater(t.Hwater[r], H, Hmax[r]),
              !.excess[r] = t.excess[r]
                              + recharge_excess(t.Hwater[r], H, Hmax[r])]

\* reservoirs[r].discharge(self.dt) of the second object
twin_discharge(t, r) ==
    LET dH == discharge_dH(t.Hwater[r], decay[r]) IN
    [t EXCEPT !.H_exfiltrated =
                  (r :> discharge_H_exfiltrated(t.excess[r], dH,
                                                f_to_discharge[r])) @@ @,
              !.H_infiltrated =
                  (r :> discharge_H_infiltrated(dH, f_to_discharge[r])) @@ @,
              !.Hwater[r] = t.Hwater[r] - dH,
              !.excess[r] = discharge_excess(t.excess[r])]

\* update of the second object from reservoir r on: recharge with H,
\* discharge, Qi, then the next reservoir with this one's H_infiltrated
RECURSIVE twin_update_from(_, _, _, _)
twin_update_from(t, r, H, q) ==
    LET d == twin_discharge(twin_recharge(t, r, H), r)
        qi == update_Qi(r, q, d.H_exfiltrated[r]) IN
    IF r + 1 < N
    THEN twin_update_from(d, r + 1, d.H_infiltrated[r], qi)
    ELSE [d EXCEPT !.ret = qi, !.steps = @ + 1]

\* update(rain_at_timestep, ET_at_timestep) of the second object
twin_update(t, rainv, etv) == twin_update_from(t, 0, rainv - etv, 0)

\* a second buckets object with the same reservoir parameters is built and
\* given initialize(export_Hlist()) of the first
ResumeCall ==
    /\ pc = "idle"
    /\ twin = None
    /\ twin' = Some(twin_initialize(export_Hlist))
    /\ UNCHANGED <<params, resvars, forcing, runvars, updvars, pc, H0, budget,
                   ndischarge, ncalls, last, prev, lastc>>

\* update, lines 116-117: the top reservoir is recharged with rain - ET;
\* the second object, when there is one, is given the same step
UpdateEnter(rainv, etv) ==
    /\ ndischarge + N <= MaxDischarge
    /\ nsteps < MaxSteps
    /\ nsteps' = nsteps + 1
    /\ rain_at_timestep' = rainv
    /\ ET_at_timestep' = etv
    /\ recharge_at_timestep' = rainv - etv
    /\ DoRecharge(0, rainv - etv)
    /\ calls' = <<[op |-> "recharge", r |-> 0, H |-> rainv - etv, exf |-> 0]>>
    /\ i' = 0
    /\ pc' = "discharge"
    /\ lastc' = CascadeCall("update", None, FALSE)
    /\ budget' = [budget EXCEPT !.rain = @ + rainv]
    /\ twin' = IF twin = None THEN None
               ELSE Some(twin_update(Val(twin), rainv, etv))
    /\ UNCHANGED <<params, forcing, Qi, ret, H0, ncalls>>

\* update(rain_at_timestep, ET_at_timestep) called by the user
UpdateCall ==
    /\ pc = "idle"
    /\ \E rainv \in RainSet, etv \in ETSet : UpdateEnter(rainv, etv)
    /\ UNCHANGED runvars

\* update(rain_at_timestep) called by the user: ET_at_timestep=0.
UpdateCallNoET ==
    /\ pc = "idle"
    /\ \E rainv \in RainSet : UpdateEnter(rainv, 0)
    /\ UNCHANGED runvars

\* update, lines 118-119 and 122-123; the call is logged with the
\* infiltration and exfiltration it produced
UpdateDischarge ==
    /\ pc = "discharge"
    /\ DoDischarge(i)
    /\ Qi' = update_Qi(i, Qi, H_exfiltrated'[i])
    /\ calls' = Append(calls, [op |-> "discharge", r |-> i,
                               H |-> H_infiltrated'[i],
                               exf |-> H_exfiltrated'[i]])
    /\ IF i + 1 < N
       THEN i' = i + 1 /\ pc' = "recharge"
       ELSE i' = i /\ pc' = "return"
    /\ UNCHANGED <<params, forcing, runvars, rain_at_timestep, ET_at_timestep,
                   recharge_at_timestep, ret, nsteps, H0, budget, twin,
                   ncalls, lastc>>

\* update, line 121
UpdateRecharge ==
    /\ pc = "recharge"
    /\ DoRecharge(i, recharge_from_above(i))
    /\ calls' = Append(calls, [op |-> "recharge", r |-> i,
                               H |-> recharge_from_above(i), exf |-> 0])
    /\ pc' = "discharge"
    /\ UNCHANGED <<params, forcing, runvars, i, rain_at_timestep,
                   ET_at_timestep, recharge_at_timestep, Qi, ret, nsteps, H0,
                   budget, twin, ncalls, lastc>>

\* update, line 124; in run the caller appends the value to self.Q
UpdateReturn ==
    /\ pc = "return"
    /\ ret' = Qi
    /\ budget' = [budget EXCEPT !.Q = @ + Qi,
                                !.lost = @ + H_infiltrated[N - 1]]
    /\ IF inRun
       THEN /\ Q' = Append(Q, Qi)
            /\ returned' = Append(returned, Qi)
            /\ ti' = ti + 1
            /\ pc' = "loop"
       ELSE /\ UNCHANGED <<Q, returned, ti>>
            /\ pc' = "idle"
    /\ UNCHANGED <<params, resvars, forcing, time, inRun, arg_rain, arg_ET,
                   error, i, rain_at_timestep, ET_at_timestep,
                   recharge_at_timestep, Qi, calls, nsteps, H0, ndischarge,
                   ncalls, last, prev, lastc, twin>>

UpdateStep == UpdateDischarge \/ UpdateRecharge \/ UpdateReturn

\* update steps only, from the constructed state
NextUpdate == UpdateCall \/ UpdateStep
SpecUpdate == Init /\ [][NextUpdate]_vars

\* update steps of a cascade that a second object resumes at some point
NextResume == ResumeCall \/ UpdateCall \/ UpdateStep
SpecResume == Init /\ [][NextResume]_vars

\* initialize, export_Hlist and update(rain_at_timestep) in any order
NextCascade == InitializeCall \/ ExportCall \/ UpdateCallNoET \/ UpdateStep
SpecCascade == Init /\ [][NextCascade]_vars

\* either one reservoir on its own is driven by direct calls, or a cascade
\* is driven by update (with ET)
InitEither == InitReservoir \/ Init
NextEither ==
    \/ nsteps = 0 /\ N = 1 /\ RechargeCall
    \/ nsteps = 0 /\ N = 1 /\ DischargeCall
    \/ ncalls = 0 /\ UpdateCall
    \/ ncalls = 0 /\ UpdateStep
SpecEither == InitEither /\ [][NextEither]_vars

\* ------------------------------------------------------------------- run
\* set_rainfall_time_series(rain)
SetRainfallCall ==
    /\ pc = "idle"
    /\ \E series \in RainSeriesSet : rain' = Some(series)
    /\ lastc' = CascadeCall("set_rainfall_time_series", None, FALSE)
    /\ UNCHANGED <<params, resvars, ET, runvars, updvars, pc, H0, budget,
                   twin, ndischarge, ncalls, last, prev>>

\* set_evapotranspiration(ET)
SetETCall ==
    /\ pc = "idle"
    /\ \E series \in ETSeriesSet : ET' = Some(series)
    /\ lastc' = CascadeCall("set_evapotranspiration", None, FALSE)
    /\ UNCHANGED <<params, resvars, rain, runvars, updvars, pc, H0, budget,
                   twin, ndischarge, ncalls, last, prev>>

\* self.time = np.arange(len(self.rain)) * self.dt
run_time(series) == [j \in 1..Len(series) |-> (j - 1) * dt]

\* run that falls back on a series of one dry step
run_rain_default(rainarg, selfrain) ==
    IF rainarg # None THEN rainarg
    ELSE IF selfrain # None THEN selfrain
    ELSE Some(<<0>>)

\* self.rain after lines 149-152: the argument, when one is given
run_rain(rainarg, selfrain) == IF rainarg # None THEN rainarg ELSE selfrain

\* run that appends to the discharge series of the run before
run_Q_kept == Q

\* self.Q = []
run_Q_init == <<>>

\* run(rain, ET), lines 148-155: up to the loop, or sys.exit
RunEnter(rainarg, etarg) ==
    /\ Q' = run_Q_init
    /\ returned' = <<>>
    /\ rain' = run_rain(rainarg, rain)
    /\ arg_rain' = rainarg
    /\ arg_ET' = etarg
    /\ lastc' = CascadeCall("run", None, FALSE)
    /\ IF rain' = None
       THEN /\ error' = "SystemExit"
            /\ pc' = "failed"
            /\ UNCHANGED <<time, ti, inRun>>
       ELSE /\ nsteps + Len(Val(rain')) <= MaxSteps
            /\ ndischarge + N * Len(Val(rain')) <= MaxDischarge
            /\ time' = run_time(Val(rain'))
            /\ ti' = 0
            /\ inRun' = TRUE
            /\ error' = "none"
            /\ pc' = "loop"
    /\ UNCHANGED <<params, resvars, ET, updvars, H0, budget, twin, ndischarge,
                   ncalls, last, prev>>

RunCall ==
    /\ pc = "idle"
    /\ \E rainarg \in {None} \cup {Some(x) : x \in RainSeriesSet},
          etarg \in BOOLEAN : RunEnter(rainarg, etarg)

\* arguments of self.update(...) that take the last entry of self.ET to be
\* out of range
run_argument_error_off_by_one ==
    IF arg_rain = None THEN "TypeError"
    ELSE IF ~arg_ET THEN "none"
    ELSE IF ET = None THEN "TypeError"
    ELSE IF ti + 1 >= Len(Val(ET)) THEN "IndexError"
    ELSE "none"

\* the exception raised while the arguments of self.update(...) are
\* evaluated at step ti, or "none": rain[ti] is run's parameter, which is
\* None when run() was called without it; self.ET[ti] is read after it
run_argument_error ==
    IF arg_rain = None THEN "TypeError"
    ELSE IF ~arg_ET THEN "none"
    ELSE IF ET = None THEN "TypeError"
    ELSE IF ti >= Len(Val(ET)) THEN "IndexError"
    ELSE "none"

\* run, lines 156-165: one turn of the loop up to the call of update, or
\* the end of the loop
RunLoop ==
    /\ pc = "loop"
    /\ IF ti < Len(Val(rain))
       THEN IF run_argument_error # "none"
            THEN /\ error' = run_argument_error
                 /\ pc' = "failed"
                 /\ UNCHANGED <<resvars, updvars, ndischarge, last, prev,
                                lastc, inRun, Q, budget, twin>>
            ELSE /\ UpdateEnter(Val(arg_rain)[ti + 1],
                                IF arg_ET THEN Val(ET)[ti + 1] ELSE 0)
                 /\ UNCHANGED <<error, inRun, Q>>
       ELSE /\ pc' = "idle"
            /\ inRun' = FALSE
            /\ lastc' = CascadeCall("run", Some(Q), FALSE)
            /\ UNCHANGED <<resvars, updvars, ndischarge, last, prev, error, Q,
                           budget, twin>>
    /\ UNCHANGED <<params, forcing, time, arg_rain, arg_ET, ti, H0, ncalls,
                   returned>>

NextRun == SetRainfallCall \/ SetETCall \/ RunCall \/ RunLoop \/ UpdateStep
SpecRun == Init /\ [][NextRun]_vars

\* run(rain) without ET, from levels set by initialize
RunCallNoET ==
    /\ pc = "idle"
    /\ \E series \in RainSeriesSet : RunEnter(Some(series), FALSE)

NextNoET == InitializeCall \/ RunCallNoET \/ RunLoop \/ UpdateStep
SpecNoET == Init /\ [][NextNoET]_vars

\* update(rain_at_timestep) and run called by the user in any order, the
\* rainfall being given to run as its argument only
NextSession ==
    UpdateCallNoET \/ SetETCall \/ RunCall \/ RunLoop \/ UpdateStep
SpecSession == Init /\ [][NextSession]_vars

\* ------------------------------------------------ evapotranspiration
\* Temperatures are multiples of 1/TempDen degree and Teff is counted in
\* 1/TeffDen degree, so that Teff = 0.5 * 0.69 * (3*Tmax - Tmin) is exact
\* and the value 26 occurs.  The polynomial and the power law are kept as
\* terms, a float being 0, a term or a sum of terms, or nan.
TempDen == 69
TeffDen == 200 * TempDen
TeffHigh == 26 * TeffDen

\* Teff = 0.5 * 0.69 * (3*Tmax - Tmin), 0.5 * 0.69 being 69/200
Teff(Tmax, Tmin) == 69 * (3 * Tmax - Tmin)

Term(kind, t, photoperiod) ==
    [kind |-> kind, Teff |-> t, photoperiod |-> photoperiod]
Zero == Term("zero", 0, 0)
NaN == Term("nan", 0, 0)

\* C*(-415.85 + 32.24*Teff - 0.43*Teff**2)
Chang_polynomial(t, photoperiod) == Term("polynomial", t, photoperiod)

\* (10.*Teff / self.Chang_I)**self.Chang_a_i with Chang_a_i = 1.15...: a
\* negative base raises ValueError when it is a Python float
Chang_power_raises(t, numpy) == t < 0 /\ ~numpy

\* 16.*C * (10.*Teff / self.Chang_I)**self.Chang_a_i: nan for a negative
\* numpy base, 0 for Teff = 0
Chang_power(t, photoperiod) ==
    IF t < 0 THEN NaN
    ELSE IF t = 0 THEN Zero
    ELSE Term("powerlaw", t, photoperiod)

\* x * (condition): the boolean counts as 1 or 0, and nan * 0 is nan
TimesBool(x, b) == IF x.kind = "nan" THEN NaN ELSE IF b THEN x ELSE Zero

\* x + y
Plus(x, y) ==
    IF x.kind = "nan" \/ y.kind = "nan" THEN NaN
    ELSE IF x.kind = "zero" THEN y
    ELSE IF y.kind = "zero" THEN x
    ELSE Term("sum", x.Teff, x.photoperiod)

\* the value assigned to self.ET, lines 137-139
Chang_ET(t, photoperiod) ==
    Plus(TimesBool(Chang_polynomial(t, photoperiod), t >= TeffHigh),
         TimesBool(TimesBool(Chang_power(t, photoperiod), t > 0),
                   t < TeffHigh))

\* evapotranspirationChang2019(Tmax, Tmin, photoperiod), called with Python
\* floats or with numpy values
EvapotranspirationCall ==
    /\ pc = "idle"
    /\ \E Tmax \in TempSet, Tmin \in TempSet, photoperiod \in PhotoSet,
          numpy \in BOOLEAN :
          LET t == Teff(Tmax, Tmin) IN
          /\ lastc' = CascadeCall("evapotranspirationChang2019",
                                  Some(<<Tmax, Tmin, photoperiod>>), FALSE)
          /\ IF Chang_power_raises(t, numpy)
             THEN /\ error' = "ValueError"
                  /\ pc' = "failed"
                  /\ ET' = ET
             ELSE /\ ET' = Some(Chang_ET(t, photoperiod))
                  /\ UNCHANGED <<error, pc>>
    /\ UNCHANGED <<params, resvars, rain, Q, time, inRun, arg_rain, arg_ET,
                   ti, returned, updvars, H0, budget, twin, ndischarge,
                   ncalls, last, prev>>

NextET == EvapotranspirationCall
SpecET == Init /\ [][NextET]_vars

\* every depth is a whole number of grains of the current resolution
Grain == (DecayDen * FracDen) ^ (MaxDischarge - ndischarge)
ExactArithmetic ==
    /\ \A r \in Res : Hwater[r] % Grain = 0 /\ excess[r] % Grain = 0
    /\ \A r \in DOMAIN H_exfiltrated : H_exfiltrated[r] % Grain = 0
    /\ \A r \in DOMAIN H_infiltrated : H_infiltrated[r] % Grain = 0
\* ========================================================= claims C1..C10
\* the reservoir call c was a recharge with a negative amount larger than
\* the water stored on entry, which was >= 0
OverDepleting(c) ==
    /\ c.op = "recharge"
    /\ c.Hwater >= 0
    /\ c.H < 0
    /\ -c.H > c.Hwater

\* C1 (as stated): a recharge entered with Hwater >= 0 whose negative amount
\* exceeds the stored water returns with Hwater = 0, never negative.
C1_ETFloorSameCall == OverDepleting(last) => Hwater[last.r] = 0

\* the lower reservoirs of the cascade
Lower == Res \ {0}

\* C2 (as stated): with rain >= 0 and ET >= 0 in every update, the amount
\* recharged into every reservoir below the top one is >= 0 and the level
\* of every such reservoir never drops below 0.
C2_ETStaysInTopLayer ==
    /\ \A k \in 1..Len(calls) :
          (calls[k].op = "recharge" /\ calls[k].r \in Lower) => calls[k].H >= 0
    /\ \A r \in Lower : Hwater[r] >= 0

\* C3 (as stated): run() without a rainfall argument, after
\* set_rainfall_time_series(r) (and, with ET, a series at least as long),
\* does not fail and ends with len(Q) = len(r).
C3_RunUsesConfiguredRainfall ==
    (/\ lastc.op \in {"run", "update"}
     /\ arg_rain = None
     /\ rain # None
     /\ arg_ET => (ET # None /\ Len(Val(ET)) >= Len(Val(rain))))
    => /\ pc # "failed"
       /\ (pc = "idle" /\ lastc.op = "run") => Len(Q) = Len(Val(rain))

\* the two-layer cascade of C4: everything the top reservoir loses
\* exfiltrates
TopAllToDischarge == N = 2 /\ f_to_discharge[0] = FracDen

\* what C4 says of the top reservoir's infiltration and of the amounts
\* recharged into reservoir 1
NothingInfiltrates ==
    /\ 0 \in DOMAIN H_infiltrated => H_infiltrated[0] = 0
    /\ \A k \in 1..Len(calls) :
          (calls[k].op = "recharge" /\ calls[k].r = 1) => calls[k].H = 0

\* C4 (as stated): with f_to_discharge = 1 for reservoir 0 of two,
\* reservoir 0 infiltrates 0 at every step, and after every step the level
\* of reservoir 1 is the level it was initialized to, whatever that was.
C4_LowerLevelKeepsAnyInitialValue ==
    TopAllToDischarge =>
        /\ NothingInfiltrates
        /\ pc = "idle" => Hwater[1] = H0[1]

\* C4 (amended): as above, but the level of reservoir 1 is kept only when
\* it is 0, the level the constructor gives it.
C4_LowerLevelKeepsZero ==
    TopAllToDischarge =>
        /\ NothingInfiltrates
        /\ (pc = "idle" /\ H0[1] = 0) => Hwater[1] = 0

\* two steps of such a cascade during which water drained from reservoir 0
C4_Witness ==
    /\ TopAllToDischarge
    /\ pc = "idle"
    /\ nsteps >= 2
    /\ H0[1] = 0
    /\ Hwater[1] = 0
    /\ Hwater[0] > 0
    /\ H_exfiltrated[0] > 0
    /\ Len(calls) = 4

\* C5 (as stated): the recharge call that follows an over-depleting recharge
\* of the same reservoir applies its positive amount in full: Hwater rises by
\* the amount, or reaches Hmax with the rest added to excess.
C5_PositiveAfterFloorApplied ==
    (/\ last.op = "recharge"
     /\ last.H > 0
     /\ prev.r = last.r
     /\ OverDepleting(prev))
    => LET r == last.r IN
       \/ /\ Hwater[r] = last.Hwater + last.H
          /\ excess[r] = last.excess
       \/ /\ Hmax[r] # Inf
          /\ Hwater[r] = Hmax[r]
          /\ excess[r] = last.excess + last.Hwater + last.H - Hmax[r]

\* C6: for a reservoir with Hmax = np.inf, recharge(H) entered with
\* Hwater >= 0 and followed by discharge gives
\* H_exfiltrated + H_infiltrated = Hwater_before + H - Hwater_after.
C6_Conservation ==
    (/\ last.op = "discharge"
     /\ prev.op = "recharge"
     /\ prev.r = last.r
     /\ Hmax[last.r] = Inf
     /\ prev.Hwater >= 0)
    => LET r == last.r IN
       H_exfiltrated[r] + H_infiltrated[r] = prev.Hwater + prev.H - Hwater[r]

\* a step of C6 in which the water is split between both outputs
C6_Witness ==
    /\ last.op = "discharge"
    /\ prev.op = "recharge"
    /\ prev.r = last.r
    /\ Hmax[last.r] = Inf
    /\ prev.Hwater > 0
    /\ prev.H # 0
    /\ H_exfiltrated[last.r] > 0
    /\ H_infiltrated[last.r] > 0
    /\ Hwater[last.r] > 0

\* the recharge c overflowed a reservoir whose level was >= 0 on entry
Overflowing(c) ==
    /\ c.op = "recharge"
    /\ c.Hwater >= 0
    /\ Hmax[c.r] # Inf
    /\ c.Hwater + c.H > Hmax[c.r]

\* C7: an overflowing recharge leaves Hwater = Hmax and adds the surplus to
\* excess; a discharge puts the whole excess into H_exfiltrated, nothing of
\* it into H_infiltrated (which is the 1 - f_to_discharge share of the
\* depleted water only), and resets excess to 0.
C7_OverflowRouting ==
    LET r == last.r
        depleted == last.Hwater - Hwater[r] IN
    /\ Overflowing(last) =>
          /\ Hwater[r] = Hmax[r]
          /\ excess[r] = last.excess + last.Hwater + last.H - Hmax[r]
    /\ last.op = "discharge" =>
          /\ H_infiltrated[r] * FracDen
                 = depleted * (FracDen - f_to_discharge[r])
          /\ H_exfiltrated[r] = last.excess + depleted - H_infiltrated[r]
          /\ excess[r] = 0

\* a discharge right after an overflowing recharge, with f_to_discharge = 0:
\* the exfiltrated water is the excess alone although water infiltrates
C7_Witness ==
    /\ last.op = "discharge"
    /\ prev.r = last.r
    /\ Overflowing(prev)
    /\ last.excess > 0
    /\ f_to_discharge[last.r] = 0
    /\ H_exfiltrated[last.r] = last.excess
    /\ H_infiltrated[last.r] > 0

RECURSIVE SumExf(_)
SumExf(k) == IF k = 0 THEN 0 ELSE calls[k].exf + SumExf(k - 1)

\* no update is in progress and one has returned
UpdateReturned == nsteps > 0 /\ pc \notin {"recharge", "discharge", "return"}

\* C8: in one update the reservoirs are taken top to bottom, each recharged
\* once and then discharged once; reservoir 0 is recharged with rain - ET,
\* every lower reservoir with the infiltration that the discharge just before
\* it (of the reservoir above, in this step) produced; the value returned is
\* the sum of the exfiltrations of this step.
C8_UpdateOrdering ==
    /\ \A k \in 1..Len(calls) :
          /\ calls[k].r = (k - 1) \div 2
          /\ calls[k].op = (IF k % 2 = 1 THEN "recharge" ELSE "discharge")
          /\ k = 1 => calls[k].H = rain_at_timestep - ET_at_timestep
          /\ (k > 1 /\ k % 2 = 1) => calls[k].H = calls[k - 1].H
          /\ k % 2 = 0 => /\ calls[k].H = H_infiltrated[calls[k].r]
                          /\ calls[k].exf = H_exfiltrated[calls[k].r]
    /\ UpdateReturned =>
          /\ Len(calls) = 2 * N
          /\ ret = SumExf(Len(calls))

\* a second update of two layers has returned; both exfiltrated and the
\* lower one was recharged from the upper one
C8_Witness ==
    /\ UpdateReturned
    /\ N = 2
    /\ nsteps >= 2
    /\ calls[3].H > 0
    /\ calls[2].exf > 0
    /\ calls[4].exf > 0
    /\ ret = calls[2].exf + calls[4].exf

\* C9: a recharge entered with Hwater < 0 sets Hwater to 0, applies none of
\* its amount and leaves excess as it was.
C9_NegativeLevelRule ==
    (last.op = "recharge" /\ last.Hwater < 0)
    => /\ Hwater[last.r] = 0
       /\ excess[last.r] = last.excess

\* a positive amount recharged into a reservoir whose level was negative
\* and which still carried excess
C9_Witness ==
    /\ last.op = "recharge"
    /\ last.Hwater < 0
    /\ last.H > 0
    /\ last.excess > 0
    /\ Hwater[last.r] = 0

\* the list holds the levels of the reservoirs, in their order
LevelsInOrder(Hlist) ==
    /\ Len(Hlist) = N
    /\ \A r \in Res : Hlist[r + 1] = Hwater[r]

\* C10: export_Hlist returns the levels in reservoir order and changes no
\* state; initialize called with the list just exported leaves every
\* reservoir's Hwater as it was.
C10_CheckpointRoundTrip ==
    [][/\ (lastc'.op = "export" /\ ExportCall) =>
            /\ LevelsInOrder(Val(lastc'.Hlist))
            /\ UNCHANGED <<params, resvars, forcing, Q, time, H0>>
       /\ (lastc'.exported /\ InitializeCall) => Hwater' = Hwater]_vars

\* initialize has just been given the exported levels of two layers that
\* differ, after an update
C10_Witness ==
    /\ lastc.op = "initialize"
    /\ lastc.exported
    /\ N = 2
    /\ nsteps >= 1
    /\ Hwater[0] # Hwater[1]
    /\ Hwater[1] > 0

\* ======================================================== claims C11..C19
\* C11: run called without a rainfall argument while self.rain is None ends
\* in the SystemExit of line 154 without any update: Hwater and excess of
\* every reservoir are what they were before the call, and nothing runs
\* after the exit.
C11_MissingRainfallFatal ==
    [][/\ (pc = "idle" /\ rain = None /\ arg_rain' = None /\ RunCall) =>
            /\ error' = "SystemExit"
            /\ pc' = "failed"
            /\ UNCHANGED <<resvars, nsteps, ndischarge>>
       /\ error # "SystemExit"]_vars

\* run() has exited for want of rainfall on a cascade that holds water
\* from two earlier updates
C11_Witness ==
    /\ error = "SystemExit"
    /\ pc = "failed"
    /\ rain = None
    /\ arg_rain = None
    /\ N = 2
    /\ Hwater[0] > 0
    /\ Hwater[1] > 0
    /\ nsteps = 2
    /\ Q = <<>>

\* the last call of run has ended, by returning or by an exception
RunEnded ==
    \/ pc = "failed"
    \/ pc = "idle" /\ lastc.op = "run" /\ lastc.Hlist # None

\* a run(rain, ET=True) with a series in self.ET has ended
RunWithETEnded ==
    /\ RunEnded
    /\ arg_rain # None
    /\ arg_ET
    /\ ET # None

\* C12 (as stated, for runs given their rainfall as argument): when the
\* series in self.ET is shorter or longer than the rainfall series, the run
\* ends in an IndexError, not normally.
C12_AnyLengthMismatchFails ==
    (RunWithETEnded /\ Len(Val(ET)) # Len(Val(rain)))
    => pc = "failed" /\ error = "IndexError"

\* C12 (amended): a shorter series in self.ET ends the run in an IndexError
\* at the first step without an entry, after one update per entry; a series
\* of the same length or longer lets the run complete with one discharge
\* per rainfall step.
C12_ShorterETFails ==
    RunWithETEnded =>
        IF Len(Val(ET)) < Len(Val(rain))
        THEN /\ pc = "failed"
             /\ error = "IndexError"
             /\ ti = Len(Val(ET))
             /\ Len(Q) = Len(Val(ET))
        ELSE /\ pc = "idle"
             /\ error = "none"
             /\ Len(Q) = Len(Val(rain))

\* a run of two rainfall steps has failed at the second for want of an
\* entry in self.ET, the first step done
C12_Witness ==
    /\ RunWithETEnded
    /\ Len(Val(rain)) = 2
    /\ Len(Val(ET)) = 1
    /\ error = "IndexError"
    /\ Len(Q) = 1
    /\ nsteps >= 1

\* what recharge c could not store: the part of level + amount above Hmax
Surplus(c) == IF Overflowing(c) THEN c.Hwater + c.H - Hmax[c.r] ELSE 0

\* C13: excess is >= 0 after every recharge and discharge, whatever the sign
\* of the amounts; a recharge never lowers it, and two recharges in a row
\* leave the sum of what was there and of both surpluses; it is 0 right
\* after a discharge; and it is 0 for every reservoir whenever an update
\* has returned.
C13_PendingExcess ==
    /\ \A r \in Res : excess[r] >= 0
    /\ last.op = "recharge" =>
          /\ excess[last.r] >= last.excess
          /\ (prev.op = "recharge" /\ prev.r = last.r) =>
                excess[last.r] = prev.excess + Surplus(prev) + Surplus(last)
    /\ last.op = "discharge" => excess[last.r] = 0
    /\ (pc = "idle" /\ nsteps > 0) => \A r \in Res : excess[r] = 0

\* two overflowing recharges in a row, after an earlier call, of a
\* reservoir that carried no excess
C13_Witness ==
    /\ last.op = "recharge"
    /\ prev.op = "recharge"
    /\ prev.r = last.r
    /\ Surplus(prev) > 0
    /\ Surplus(last) > 0
    /\ prev.excess = 0
    /\ excess[last.r] = Surplus(prev) + Surplus(last)
    /\ ncalls >= 3

\* the last call of run has returned
RunCompleted == pc = "idle" /\ lastc.op = "run" /\ lastc.Hlist # None

\* C14: when a run has completed, Q has one entry per rainfall step, entry j
\* being the value the j-th update of this run returned and none coming from
\* an earlier run, and time has as many entries, 0, dt, 2 dt, ...
C14_FreshDischargeSeries ==
    RunCompleted =>
        /\ Len(Q) = Len(Val(rain))
        /\ Q = returned
        /\ Len(time) = Len(Val(rain))
        /\ \A j \in 1..Len(time) : time[j] = (j - 1) * dt

\* a run of two steps has completed after an earlier run of one step
C14_Witness ==
    /\ RunCompleted
    /\ Len(Val(rain)) = 2
    /\ nsteps = 3
    /\ N = 2
    /\ Q[1] > Q[2]
    /\ Q[2] > 0
    /\ time = <<0, dt>>

\* the series is positive at its first step and 0 afterwards
RainPulse(series) ==
    /\ Len(series) >= 1
    /\ series[1] > 0
    /\ \A j \in 2..Len(series) : series[j] = 0

\* a run without ET of one fresh reservoir with Hmax = np.inf and
\* f_to_discharge = 1 on a rain pulse stands between two steps or has
\* completed; no update was made before this run
RecessionRun ==
    /\ N = 1
    /\ Hmax[0] = Inf
    /\ f_to_discharge[0] = FracDen
    /\ decay[0] \in DecayOpen
    /\ (pc = "loop" /\ inRun) \/ RunCompleted
    /\ ~arg_ET
    /\ RainPulse(Val(rain))
    /\ nsteps = Len(Q)

\* C15: in such a run the first discharge is rain * (1 - decay) and leaves
\* Hwater = rain * decay, and every later discharge is strictly smaller than
\* the one before.
C15_Recession ==
    RecessionRun =>
        LET pulse == Val(rain)[1] IN
        /\ Len(Q) >= 1 => Q[1] * DecayDen = pulse * (DecayDen - decay[0])
        /\ Len(Q) = 1 => Hwater[0] * DecayDen = pulse * decay[0]
        /\ \A j \in 2..Len(Q) : Q[j] < Q[j - 1]

\* the run on a pulse followed by two dry steps has completed
C15_Witness ==
    /\ RecessionRun
    /\ RunCompleted
    /\ Len(Q) = 3
    /\ Q[3] > 0
    /\ Hwater[0] > 0

\* the regime of Teff: 0 up to Teff = 0, the power law alone below 26, the
\* polynomial alone from 26 on
Regime(t, photoperiod) ==
    IF t <= 0 THEN Zero
    ELSE IF t < TeffHigh THEN Term("powerlaw", t, photoperiod)
    ELSE Term("polynomial", t, photoperiod)

\* C16 (as stated): every call of evapotranspirationChang2019 returns with
\* self.ET set to the value of the one regime of its Teff; in particular
\* self.ET is exactly 0 for every Teff <= 0.
C16_ETRegimes ==
    lastc.op = "evapotranspirationChang2019" =>
        LET a == Val(lastc.Hlist) IN
        /\ error = "none"
        /\ ET = Some(Regime(Teff(a[1], a[2]), a[3]))

\* the reservoirs started with 0 <= Hwater <= Hmax and have
\* 0 <= f_to_discharge <= 1
StartedInRange ==
    \A r \in Res : /\ H0[r] >= 0
                   /\ LeqHmax(H0[r], Hmax[r])
                   /\ f_to_discharge[r] \in 0..FracDen

\* C17: from such a start, under updates with rain >= 0 and without ET, every
\* reservoir keeps 0 <= Hwater <= Hmax, every H_exfiltrated and
\* H_infiltrated is >= 0, and every entry of Q is >= 0.
C17_NormalOperation ==
    StartedInRange =>
        /\ \A r \in Res : Hwater[r] >= 0 /\ LeqHmax(Hwater[r], Hmax[r])
        /\ \A r \in DOMAIN H_exfiltrated : H_exfiltrated[r] >= 0
        /\ \A r \in DOMAIN H_infiltrated : H_infiltrated[r] >= 0
        /\ \A j \in 1..Len(Q) : Q[j] >= 0
        /\ ret >= 0

\* a second run has completed on two layers that were initialized with
\* water; the top one, of finite Hmax, overflowed in the last update
C17_Witness ==
    /\ RunCompleted
    /\ N = 2
    /\ nsteps >= 2
    /\ Len(Q) = 1
    /\ H0[0] > 0
    /\ H0[1] > 0
    /\ Hmax[0] # Inf
    /\ calls[2].exf > Hmax[0]
    /\ H_infiltrated[0] > 0
    /\ Hwater[1] > 0
    /\ Q[1] > 0

\* the water stored in reservoirs 0 .. k - 1 at levels h
RECURSIVE Stored(_, _)
Stored(h, k) == IF k = 0 THEN 0 ELSE h[k - 1] + Stored(h, k - 1)

\* C18: with levels >= 0 at the start, rain >= 0 and no ET, between updates
\* the rain supplied since the start equals the discharges returned, plus
\* the water stored now minus the water stored at the start, plus the
\* H_infiltrated of the bottom reservoir summed over the steps.
C18_WaterBalance ==
    (pc = "idle" /\ \A r \in Res : H0[r] >= 0) =>
        budget.rain = budget.Q + (Stored(Hwater, N) - Stored(H0, N))
                          + budget.lost

\* two rainy updates since initialize gave water to two layers; the top
\* one, of finite Hmax, overflowed and the bottom one lost water downwards
C18_Witness ==
    /\ pc = "idle"
    /\ N = 2
    /\ H0[0] > 0
    /\ Hmax[0] # Inf
    /\ budget.rain = 6 * Scale
    /\ calls[2].exf > Hmax[0]
    /\ budget.lost > 0
    /\ budget.Q > 0
    /\ Stored(Hwater, N) > Stored(H0, N)

\* C19: once a second cascade with the same parameters has been given the
\* levels exported between two updates of the first, and both are given the
\* same rain and ET from then on, after every update both have returned the
\* same discharge and hold the same levels.
C19_ResumeEquivalence ==
    (pc = "idle" /\ twin # None) =>
        /\ Val(twin).Hwater = Hwater
        /\ Val(twin).steps > 0 => Val(twin).ret = ret

\* the second cascade took over two layers after the first update, in which
\* the top layer overflowed, and has made two updates with the first
C19_Witness ==
    /\ pc = "idle"
    /\ twin # None
    /\ N = 2
    /\ Hmax[0] # Inf
    /\ nsteps = 3
    /\ Val(twin).steps = 2
    /\ Val(twin).ret = ret
    /\ ret > 0
    /\ Hwater[0] > 0
    /\ Hwater[1] > 0
    /\ H_exfiltrated[0] > Hmax[0]
====
